---- MODULE Spec2Model ----
(***************************************************************************)
(* A model of the uri_parser crate: the nom parsers of src/src/parser.rs,  *)
(* the entry point parse_uri and the Display rendering of src/src/lib.rs.  *)
(*                                                                         *)
(* Bytes are integers 0..255 and a byte slice is a sequence of them.  An   *)
(* Option is a sequence of length at most one: <<>> is None and <<x>> is   *)
(* Some(x).  A HashMap is a set of <<key, value>> pairs holding at most    *)
(* one pair per key.  An IResult is a record with a tag ("Done", "Error"   *)
(* or "Incomplete"), the remaining input and the output.                   *)
(*                                                                         *)
(* The nom macros are those of nom 3 (IResult::Done, ErrorKind::Custom     *)
(* and the unparameterised nom::Err used by the sources exist only         *)
(* there); each is modelled at the place the sources invoke it.            *)
(***************************************************************************)
EXTENDS Integers, Sequences, FiniteSets

\* ------------------------------------------------------------------ bytes
COLON == 58
SLASH == 47
QMARK == 63
HASHCH == 35
LBRACK == 91
RBRACK == 93
AT == 64
AMP == 38
EQUALS == 61
ZERO == 48
NINE == 57
U16Max == 65535
ByteMax == 255

Drop(s, n) == SubSeq(s, n + 1, Len(s))
Take(s, n) == SubSeq(s, 1, n)

MinOf(S) == CHOOSE n \in S : \A m \in S : n <= m

\* The number a run of decimal digits denotes, without any width.
RECURSIVE DecimalValue(_, _)
DecimalValue(d, acc) ==
    IF d = <<>> THEN acc ELSE DecimalValue(Drop(d, 1), acc * 10 + (d[1] - ZERO))

\* ---------------------------------------------------------------- IResult
Done(rest, out) == [tag |-> "Done", rest |-> rest, out |-> out]
Error == [tag |-> "Error", rest |-> <<>>, out |-> <<>>]
Incomplete == [tag |-> "Incomplete", rest |-> <<>>, out |-> <<>>]

\* str::from_utf8: whether the bytes are well-formed UTF-8 (the str it
\* returns is a view of the same bytes).
RECURSIVE from_utf8(_)
from_utf8(b) ==
    IF b = <<>> THEN TRUE
    ELSE LET c == b[1]
             n == Len(b)
             cont(k) == k <= n /\ b[k] >= 128 /\ b[k] <= 191
         IN  IF c < 128 THEN from_utf8(Drop(b, 1))
             ELSE IF c >= 194 /\ c <= 223
                  THEN cont(2) /\ from_utf8(Drop(b, 2))
             ELSE IF c >= 224 /\ c <= 239
                  THEN /\ cont(2) /\ cont(3)
                       /\ (c = 224 => b[2] >= 160)
                       /\ (c = 237 => b[2] <= 159)
                       /\ from_utf8(Drop(b, 3))
             ELSE IF c >= 240 /\ c <= 244
                  THEN /\ cont(2) /\ cont(3) /\ cont(4)
                       /\ (c = 240 => b[2] >= 144)
                       /\ (c = 244 => b[2] <= 143)
                       /\ from_utf8(Drop(b, 4))
             ELSE FALSE

\* map_res!(p, str::from_utf8): a Done whose bytes are not UTF-8 is an Error.
map_res_utf8(r) ==
    IF r.tag = "Done" /\ ~from_utf8(r.out) THEN Error ELSE r

\* InputIter::position: the 0-based index of the first byte in stop, -1 for None.
FirstOr(hits) == IF hits = {} THEN -1 ELSE MinOf(hits) - 1
position(i, stop) == FirstOr({n \in 1..Len(i) : i[n] \in stop})

\* The split of input i at the 0-based index p that position returned.
SplitAt(i, p) ==
    IF p = 0 THEN Error
    ELSE IF p > 0 THEN Done(Drop(i, p), Take(i, p))
    ELSE Done(<<>>, i)

\* is_not!(arr): the longest prefix holding no byte of arr; an Error when the
\* first byte is one of arr. With no such byte in the input (position is
\* None) the whole input is the match: at the end of input that is Done with
\* an empty match, never an Incomplete (test_uri's host "zderadicka.eu" ends
\* the input and parses without complete!).
is_not(i, stop) == SplitAt(i, position(i, stop))

\* tag!(t): Compare::compare on the common prefix length.
tag(i, t) ==
    IF Len(i) < Len(t)
    THEN IF i # Take(t, Len(i)) THEN Error ELSE Incomplete
    ELSE IF Take(i, Len(t)) # t THEN Error ELSE Done(Drop(i, Len(t)), t)

\* char!(c)
char(i, c) ==
    IF i = <<>> THEN Incomplete
    ELSE IF i[1] = c THEN Done(Drop(i, 1), <<c>>)
    ELSE Error

\* take_until!(t): up to, not including, the first occurrence of t.
find_substring(i, t) ==
    FirstOr({n \in 1..(Len(i) - Len(t) + 1) : SubSeq(i, n, n + Len(t) - 1) = t})

TakeTo(i, index) ==
    IF index < 0 THEN Error ELSE Done(Drop(i, index), Take(i, index))

take_until(i, t) ==
    IF Len(t) > Len(i) THEN Incomplete ELSE TakeTo(i, find_substring(i, t))

\* nom::digit: one or more ASCII digits; Incomplete on empty input.
IsDigit(c) == c >= ZERO /\ c <= NINE
digit(i) ==
    IF i = <<>> THEN Incomplete
    ELSE SplitAt(i, FirstOr({n \in 1..Len(i) : ~IsDigit(i[n])}))

\* opt!(p) applied at input i: an Error becomes None with nothing consumed,
\* an Incomplete stays one.
opt(r, i) ==
    IF r.tag = "Done" THEN Done(r.rest, <<r.out>>)
    ELSE IF r.tag = "Error" THEN Done(i, <<>>)
    ELSE Incomplete

\* complete! left out: an Incomplete passes through.
complete_left_out(r) == r

\* complete!(p): an Incomplete becomes an Error.
complete(r) == IF r.tag = "Incomplete" THEN Error ELSE r

\* ----------------------------------------------------------- parser.rs
TokenStop == {COLON, SLASH, QMARK, HASHCH, LBRACK, RBRACK, AT}
PathStop == {COLON, QMARK, HASHCH, LBRACK, RBRACK}
QueryStop == {AMP, EQUALS, COLON, HASHCH, LBRACK, RBRACK}
HashStop == {COLON, HASHCH, LBRACK, RBRACK}

token(i) == map_res_utf8(is_not(i, TokenStop))

scheme(i) == map_res_utf8(take_until(i, <<COLON>>))

\* do_parse!(tag!(":") >> password: token >> (password))
password(i) ==
    LET then(c) == IF c.tag # "Done" THEN c ELSE token(c.rest)
    IN  then(tag(i, <<COLON>>))

user(i) ==
    LET name(n) ==
            IF n.tag # "Done" THEN n
            ELSE LET pass(pw) ==
                         IF pw.tag # "Done" THEN pw
                         ELSE LET at(a) ==
                                      IF a.tag # "Done" THEN a
                                      ELSE Done(a.rest, [name |-> n.out,
                                                         password |-> pw.out])
                              IN  at(tag(pw.rest, <<AT>>))
                 IN  pass(opt(password(n.rest), n.rest))
    IN  name(token(i))

\* u16::from_str_radix(s, 10) on a run of digits: checked multiply and add.
RECURSIVE FromStrRadix(_, _)
FromStrRadix(b, acc) ==
    IF b = <<>> THEN <<acc>>
    ELSE IF acc * 10 + (b[1] - ZERO) > U16Max THEN <<>>
    ELSE FromStrRadix(Drop(b, 1), acc * 10 + (b[1] - ZERO))

\* A conversion that wraps modulo 2^16 where the checked one fails.
bytes_to_u16_wrapping(b) ==
    IF ~from_utf8(b) \/ b = <<>> THEN <<>> ELSE <<DecimalValue(b, 0) % (U16Max + 1)>>

bytes_to_u16(b) ==
    IF ~from_utf8(b) \/ b = <<>> THEN <<>> ELSE FromStrRadix(b, 0)

\* do_parse!(tag!(":") >> p: map_res!(digit, bytes_to_u16) >> (p))
port(i) ==
    LET colon(c) ==
            IF c.tag # "Done" THEN c
            ELSE LET digits(d) ==
                         IF d.tag # "Done" THEN d
                         ELSE LET conv(p) ==
                                      IF Len(p) = 0 THEN Error ELSE Done(d.rest, p[1])
                              IN  conv(bytes_to_u16(d.out))
                 IN  digits(digit(c.rest))
    IN  colon(tag(i, <<COLON>>))

authority(i) ==
    LET slashes(s) ==
            IF s.tag # "Done" THEN s
            ELSE LET userinfo(u) ==
                         IF u.tag # "Done" THEN u
                         ELSE LET host(h) ==
                                      IF h.tag # "Done" THEN h
                                      ELSE LET portnum(p) ==
                                                   IF p.tag # "Done" THEN p
                                                   ELSE Done(p.rest, [user |-> u.out,
                                                                      host |-> h.out,
                                                                      port |-> p.out])
                                           IN  portnum(opt(complete(port(h.rest)), h.rest))
                              IN  host(token(u.rest))
                 IN  userinfo(opt(complete(user(s.rest)), s.rest))
    IN  slashes(tag(i, <<SLASH, SLASH>>))

path_token(i) == map_res_utf8(is_not(i, PathStop))

\* `! i[0] as char == '/'` parses as ((!i[0]) as char) == '/': the bitwise
\* complement of the first byte, compared with '/'.
parse_path(i) ==
    IF i = <<>> \/ (ByteMax - i[1]) = SLASH THEN Error
    ELSE path_token(i)

query_token(i) == map_res_utf8(is_not(i, QueryStop))

query_item(i) ==
    LET key(k) ==
            IF k.tag # "Done" THEN k
            ELSE LET eq(e) ==
                         IF e.tag # "Done" THEN e
                         ELSE LET val(v) ==
                                      IF v.tag # "Done" THEN v
                                      ELSE Done(v.rest, <<k.out, v.out>>)
                              IN  val(query_token(e.rest))
                 IN  eq(char(k.rest, EQUALS))
    IN  key(query_token(i))

\* The loop of separated_list!(complete!(char!('&')), complete!(query_item))
\* after the first element: input is what follows the last element kept.
RECURSIVE separated_loop(_, _)
separated_loop(input, res) ==
    LET sep(s) ==
            IF s.tag # "Done" THEN Done(input, res)
            ELSE IF Len(s.rest) = Len(input) THEN Done(input, res)
            ELSE LET elem(e) ==
                         IF e.tag # "Done" THEN Done(input, res)
                         ELSE IF Len(e.rest) = Len(s.rest) THEN Done(input, res)
                         ELSE separated_loop(e.rest, Append(res, e.out))
                 IN  elem(complete(query_item(s.rest)))
    IN  sep(complete(char(input, AMP)))

\* The first element: without one the list is empty and nothing is consumed.
separated_list_complete(i) ==
    LET first(e) ==
            IF e.tag # "Done" THEN Done(i, <<>>)
            ELSE IF Len(e.rest) = Len(i) THEN Error
            ELSE separated_loop(e.rest, <<e.out>>)
    IN  first(complete(query_item(i)))

\* An insert that keeps the pair the key already has.
Insert_keep_first(m, kv) ==
    IF \E p \in m : p[1] = kv[1] THEN m ELSE m \cup {kv}

\* HashMap::insert: the pair replaces the one the key had.
Insert(m, kv) == {p \in m : p[1] # kv[1]} \cup {kv}

\* Vec::into_iter().collect(): the pairs inserted in order.
RECURSIVE Collect(_, _)
Collect(v, m) ==
    IF v = <<>> THEN m ELSE Collect(Drop(v, 1), Insert(m, v[1]))

query(i) ==
    LET mark(q) ==
            IF q.tag # "Done" THEN q
            ELSE LET list(l) ==
                         IF l.tag # "Done" THEN l
                         ELSE Done(l.rest, Collect(l.out, {}))
                 IN  list(separated_list_complete(q.rest))
    IN  mark(tag(i, <<QMARK>>))

hash_token(i) == map_res_utf8(is_not(i, HashStop))

hash(i) ==
    LET mark(h) == IF h.tag # "Done" THEN h ELSE hash_token(h.rest)
    IN  mark(tag(i, <<HASHCH>>))

URI(s, a, p, q, h) ==
    IF Len(a) = 0
    THEN [scheme |-> s, user |-> <<>>, host |-> <<>>, port |-> <<>>,
          path |-> p, query |-> q, hash |-> h]
    ELSE [scheme |-> s, user |-> a[1].user, host |-> <<a[1].host>>,
          port |-> a[1].port, path |-> p, query |-> q, hash |-> h]

uri(i) ==
    LET st1(s) ==
          IF s.tag # "Done" THEN s
          ELSE LET st2(c) ==
            IF c.tag # "Done" THEN c
            ELSE LET st3(a) ==
              IF a.tag # "Done" THEN a
              ELSE LET st4(p) ==
                IF p.tag # "Done" THEN p
                ELSE LET st5(q) ==
                  IF q.tag # "Done" THEN q
                  ELSE LET st6(h) ==
                    IF h.tag # "Done" THEN h
                    ELSE Done(h.rest, URI(s.out, a.out, p.out, q.out, h.out))
                  IN  st6(opt(complete(hash(q.rest)), q.rest))
                IN  st5(opt(complete(query(p.rest)), p.rest))
              IN  st4(opt(parse_path(a.rest), a.rest))
            IN  st3(opt(authority(c.rest), c.rest))
          IN  st2(tag(s.rest, <<COLON>>))
    IN  st1(scheme(i))

\* ---------------------------------------------------------------- lib.rs
NoURI ==
    [scheme |-> <<>>, user |-> <<>>, host |-> <<>>, port |-> <<>>,
     path |-> <<>>, query |-> <<>>, hash |-> <<>>]

Ok(u) == [tag |-> "Ok", uri |-> u]
Err(e) == [tag |-> e, uri |-> NoURI]

\* An entry point that forgets to look at what remains.
parse_uri_ignoring_rest(b) ==
    LET match(r) ==
            IF r.tag = "Done" THEN Ok(r.out)
            ELSE IF r.tag = "Error" THEN Err("Parse")
            ELSE Err("Incomplete")
    IN  match(uri(b))

parse_uri(b) ==
    LET match(r) ==
            IF r.tag = "Done"
            THEN IF r.rest = <<>> THEN Ok(r.out) ELSE Err("NotFullyParsed")
            ELSE IF r.tag = "Error" THEN Err("Parse")
            ELSE Err("Incomplete")
    IN  match(uri(b))

\* The decimal digits write!(f, "{}", port) produces for a u16.
RECURSIVE Decimal(_)
Decimal(n) ==
    IF n < 10 THEN <<ZERO + n>>
    ELSE Append(Decimal(n \div 10), ZERO + (n % 10))

\* The orders in which HashMap::iter may yield the pairs of m.
IterOrders(m) ==
    {o \in [1..Cardinality(m) -> m] : \A a, b \in 1..Cardinality(m) : a # b => o[a] # o[b]}

RECURSIVE fmt_pairs(_, _)
fmt_pairs(o, prev) ==
    IF o = <<>> THEN <<>>
    ELSE (IF prev THEN <<AMP>> ELSE <<>>) \o o[1][1] \o <<EQUALS>> \o o[1][2]
         \o fmt_pairs(Drop(o, 1), TRUE)

\* impl Display for URI, with the query pairs iterated in order o.
fmt(u, o) ==
    u.scheme \o <<COLON>>
    \o (IF Len(u.user) > 0 \/ Len(u.host) > 0 THEN <<SLASH, SLASH>> ELSE <<>>)
    \o (IF Len(u.user) > 0
        THEN u.user[1].name
             \o (IF Len(u.user[1].password) > 0
                 THEN <<COLON>> \o u.user[1].password[1] ELSE <<>>)
             \o <<AT>>
        ELSE <<>>)
    \o (IF Len(u.host) > 0 THEN u.host[1] ELSE <<>>)
    \o (IF Len(u.port) > 0 THEN <<COLON>> \o Decimal(u.port[1]) ELSE <<>>)
    \o (IF Len(u.path) > 0 THEN u.path[1] ELSE <<>>)
    \o (IF Len(u.query) > 0 THEN <<QMARK>> \o fmt_pairs(o, FALSE) ELSE <<>>)
    \o (IF Len(u.hash) > 0 THEN <<HASHCH>> \o u.hash[1] ELSE <<>>)

\* ------------------------------------------------------------- the state
\* input: the bytes given to parse_uri or query (u in test_display, qs in
\*     test_query); expected: what the test that built the input expects (res
\*     in test_uri's tst); pc: how far the test has run; result: parse_uri's
\*     return value (us); qres: query's return value (d); pres: parse_path's
\*     return value; rendered: the formatted URI (u2); result2: parse_uri's
\*     return value on it (us2).
VARIABLES input, expected, pc, result, qres, pres, rendered, result2

\* ------------------------------------------------------------- the inputs
\* Each family of inputs is a predicate on the initial input and expected.
MaxLen == 4
MaxPairs == 2
MaxDigits == 5

Strings(A, lo, hi) == UNION {[1..n -> A] : n \in lo..hi}

RECURSIVE Join(_)
Join(pairs) ==
    IF pairs = <<>> THEN <<>>
    ELSE pairs[1][1] \o <<EQUALS>> \o pairs[1][2]
         \o (IF Len(pairs) > 1 THEN <<AMP>> ELSE <<>>) \o Join(Drop(pairs, 1))

\* What a test expects of an input it built from components.
NoExpect == [kind |-> "none", uri |-> NoURI, pairs |-> <<>>, digits |-> <<>>]

\* Every byte string of at most MaxLen bytes over the delimiters, a letter,
\* a digit, and the two bytes of a two-byte UTF-8 character.
Alphabet == {115, 49, COLON, SLASH, QMARK, HASHCH, AT, AMP, EQUALS, LBRACK, 208, 144}
ShortTests ==
    \E i \in Strings(Alphabet, 0, MaxLen) : input = i /\ expected = NoExpect

\* The inputs of the documented form, as test_uri builds them, with the URI
\* the test expects.
Names == {<<117>>}
Passwords == {<<112>>, <<49>>}
UserInfos ==
    {<<>>} \cup {<<[name |-> n, password |-> <<>>]>> : n \in Names}
           \cup {<<[name |-> n, password |-> <<p>>]>> : n \in Names, p \in Passwords}
Hosts == {<<104>>, <<208, 144, 46>>}
GoodPorts == {<<>>, <<<<ZERO, 56, ZERO>>>>, <<<<54, 53, 53, 51, 53>>>>}
GoodPaths == {<<>>, <<<<SLASH>>>>, <<<<SLASH, 112, SLASH, AT>>>>}
Keys == {<<97>>, <<98>>}
Values == {<<49>>, <<QMARK, SLASH>>}
PairLists == Strings(Keys \X Values, 1, MaxPairs)
GoodQueries == {<<>>} \cup {<<l>> : l \in PairLists}
GoodHashes == {<<>>, <<<<102>>>>, <<<<QMARK, AT, EQUALS>>>>}

\* The mapping a list of pairs denotes: each key with the value of its last pair.
LastWins(l) ==
    {<<l[n][1], l[n][2]>> : n \in {n \in 1..Len(l) : \A m \in (n + 1)..Len(l) : l[m][1] # l[n][1]}}

Assemble(s, u, h, p, pa, q, f) ==
    s \o <<COLON, SLASH, SLASH>>
    \o (IF Len(u) = 0 THEN <<>>
        ELSE u[1].name
             \o (IF Len(u[1].password) = 0 THEN <<>> ELSE <<COLON>> \o u[1].password[1])
             \o <<AT>>)
    \o h
    \o (IF Len(p) = 0 THEN <<>> ELSE <<COLON>> \o p[1])
    \o (IF Len(pa) = 0 THEN <<>> ELSE pa[1])
    \o (IF Len(q) = 0 THEN <<>> ELSE <<QMARK>> \o Join(q[1]))
    \o (IF Len(f) = 0 THEN <<>> ELSE <<HASHCH>> \o f[1])

GrammarTests ==
    \E u \in UserInfos, h \in Hosts, p \in GoodPorts, pa \in GoodPaths,
       q \in GoodQueries, f \in GoodHashes :
        /\ input = Assemble(<<115>>, u, h, p, pa, q, f)
        /\ expected =
               [kind |-> "uri",
                uri |-> [scheme |-> <<115>>, user |-> u, host |-> <<h>>,
                         port |-> IF Len(p) = 0 THEN <<>> ELSE <<DecimalValue(p[1], 0)>>,
                         path |-> pa,
                         query |-> IF Len(q) = 0 THEN <<>> ELSE <<LastWins(q[1])>>,
                         hash |-> f],
                pairs |-> IF Len(q) = 0 THEN <<>> ELSE q[1],
                digits |-> IF Len(p) = 0 THEN <<>> ELSE p[1]]

\* A host followed by ":" and a run of digits around the 16-bit boundary,
\* with and without user-info, whatever follows.
PortDigits ==
    {z \o d : z \in {<<>>, <<ZERO>>}, d \in Strings({51, 53, 54}, 1, MaxDigits)}
PortTails ==
    {<<>>, <<SLASH, 112>>, <<QMARK, 97, EQUALS, 49>>, <<HASHCH, 102>>,
     <<SLASH, QMARK, 97, EQUALS, 49, HASHCH, 102>>}
PortTests ==
    \E u \in {<<>>, <<117, AT>>}, d \in PortDigits, t \in PortTails :
        /\ input = <<115, COLON, SLASH, SLASH>> \o u \o <<104, COLON>> \o d \o t
        /\ expected = [kind |-> "port", uri |-> NoURI, pairs |-> <<>>, digits |-> d]

\* Query strings as test_query passes them to query.
QueryTests ==
    \E l \in PairLists :
        /\ input = <<QMARK>> \o Join(l)
        /\ expected = [kind |-> "query", uri |-> NoURI, pairs |-> l, digits |-> <<>>]

\* Inputs put together from present, absent and broken components.
LooseAuthorities ==
    {<<>>, <<SLASH>>, <<SLASH, SLASH>>, <<SLASH, SLASH, 104>>, <<SLASH, SLASH, SLASH>>,
     <<SLASH, SLASH, 117, AT>>, <<SLASH, SLASH, 117, AT, 104>>,
     <<SLASH, SLASH, 104, COLON, 49>>}
LoosePaths == {<<>>, <<SLASH, 112>>, <<112>>}
LooseQueries ==
    {<<>>, <<QMARK>>}
    \cup {<<QMARK>> \o Join(l) : l \in Strings(Keys \X {<<49>>, <<>>}, 1, MaxPairs)}
LooseHashes == {<<>>, <<HASHCH>>, <<HASHCH, 102>>}
LooseTests ==
    \E s \in {<<>>, <<115>>}, a \in LooseAuthorities, pa \in LoosePaths,
       q \in LooseQueries, f \in LooseHashes :
        /\ input = s \o <<COLON>> \o a \o pa \o q \o f
        /\ expected = NoExpect

Tests == ShortTests \/ GrammarTests \/ PortTests \/ QueryTests \/ LooseTests

\* ------------------------------------------------------ the state machine
vars == <<input, expected, pc, result, qres, pres, rendered, result2>>

NoResult == Err("none")
NoQuery == [tag |-> "none", rest |-> <<>>, map |-> {}]
NoPath == [tag |-> "none", rest |-> <<>>, out |-> <<>>]
PathResult(r) ==
    [tag |-> r.tag, rest |-> r.rest, out |-> IF r.tag = "Done" THEN r.out ELSE <<>>]
QueryResult(r) ==
    [tag |-> r.tag, rest |-> r.rest, map |-> IF r.tag = "Done" THEN r.out ELSE {}]

Init ==
    /\ Tests
    /\ pc = "start"
    /\ result = NoResult
    /\ qres = NoQuery
    /\ pres = NoPath
    /\ rendered = <<>>
    /\ result2 = NoResult

\* parse_uri(input)
ParseUri ==
    /\ pc = "start"
    /\ result' = parse_uri(input)
    /\ pc' = "parsed"
    /\ UNCHANGED <<input, expected, qres, pres, rendered, result2>>

\* query(input), as test_query calls it
Query ==
    /\ pc = "start"
    /\ qres' = QueryResult(query(input))
    /\ pc' = "queried"
    /\ UNCHANGED <<input, expected, result, pres, rendered, result2>>

\* parse_path(input), as test_path calls it
ParsePath ==
    /\ pc = "start"
    /\ pres' = PathResult(parse_path(input))
    /\ pc' = "pathed"
    /\ UNCHANGED <<input, expected, result, qres, rendered, result2>>

\* format!("{}", us) on a parsed URI
Display ==
    /\ pc = "parsed"
    /\ result.tag = "Ok"
    /\ \E o \in IterOrders(IF Len(result.uri.query) > 0 THEN result.uri.query[1] ELSE {}) :
           rendered' = fmt(result.uri, o)
    /\ pc' = "rendered"
    /\ UNCHANGED <<input, expected, result, qres, pres, result2>>

\* parse_uri(&u2) on the rendered text
Reparse ==
    /\ pc = "rendered"
    /\ result2' = parse_uri(rendered)
    /\ pc' = "reparsed"
    /\ UNCHANGED <<input, expected, result, qres, pres, rendered>>

Next == ParseUri \/ Query \/ ParsePath \/ Display \/ Reparse

Spec == Init /\ [][Next]_vars

\* ------------------------------------------------------------- the claims

\* C1: an input of the documented form scheme "://" [name [":" password] "@"]
\* host [":" digits] [path] ["?" pairs] ["#" fragment] parses to Ok with
\* exactly those components, and every omitted component is None.
C1_DocumentedFormParses ==
    (pc = "parsed" /\ expected.kind = "uri") => result = Ok(expected.uri)

\* C1 witness: no user-info but a port, so the user-info attempt reads
\* "host:digits", finds no "@" and is abandoned; path, query and fragment follow.
C1_Witness ==
    /\ pc = "parsed"
    /\ expected.kind = "uri"
    /\ result.tag = "Ok"
    /\ Len(result.uri.user) = 0
    /\ result.uri.port = <<U16Max>>
    /\ Len(result.uri.path) > 0
    /\ Len(result.uri.query) > 0
    /\ Len(result.uri.hash) > 0

\* C2: for every input parse_uri accepts, rendering the URI and parsing the
\* rendered text gives back an equal URI, whatever order the query pairs are
\* rendered in.
C2_RoundTrip ==
    pc = "reparsed" => result2 = result

\* C3: parse_uri returns Ok only when the component sequence consumed every
\* byte, and NotFullyParsed whenever it completed with bytes left over.
C3_FullyConsumed ==
    LET holds(r) ==
            /\ result.tag = "Ok" => (r.tag = "Done" /\ r.rest = <<>> /\ result.uri = r.out)
            /\ (r.tag = "Done" /\ r.rest # <<>>) => result.tag = "NotFullyParsed"
    IN  pc = "parsed" => holds(uri(input))

\* C3 witness: the sequence completed and left a suffix.
C3_Witness ==
    /\ pc = "parsed"
    /\ result.tag = "NotFullyParsed"
    /\ uri(input).tag = "Done"
    /\ Len(uri(input).rest) > 0

\* Whether the bytes right after the first ":" of i begin with "//".
HasAuthorityMarker(i) ==
    LET colons == {n \in 1..Len(i) : i[n] = COLON}
    IN  /\ colons # {}
        /\ MinOf(colons) + 2 <= Len(i)
        /\ i[MinOf(colons) + 1] = SLASH
        /\ i[MinOf(colons) + 2] = SLASH

\* C4: in an accepted URI, host, port and user are all None exactly when the
\* bytes after the scheme's ":" do not begin with "//".
C4_AuthorityIffMarker ==
    (pc = "parsed" /\ result.tag = "Ok") =>
        ((Len(result.uri.host) = 0 /\ Len(result.uri.port) = 0 /\ Len(result.uri.user) = 0)
            <=> ~HasAuthorityMarker(input))

\* C5: the scheme of an accepted URI is never empty.
C5_SchemeNonEmpty ==
    (pc = "parsed" /\ result.tag = "Ok") => Len(result.uri.scheme) > 0

\* C6: parse_path returns an error on every input that is empty or does not
\* begin with "/", so the path of an accepted URI, when present, begins with "/".
C6_PathBeginsWithSlash ==
    /\ (pc = "pathed" /\ (input = <<>> \/ input[1] # SLASH)) => pres.tag = "Error"
    /\ (pc = "parsed" /\ result.tag = "Ok" /\ Len(result.uri.path) > 0) =>
           (Len(result.uri.path[1]) > 0 /\ result.uri.path[1][1] = SLASH)

\* C7: an accepted query string ?k1=v1&...&kn=vn gives the mapping whose keys
\* are the distinct keys among k1..kn, each with the value of its last pair.
C7_LastWriteWins ==
    (pc = "queried" /\ expected.kind = "query" /\ qres.tag = "Done" /\ qres.rest = <<>>) =>
        /\ {p[1] : p \in qres.map} = {expected.pairs[n][1] : n \in 1..Len(expected.pairs)}
        /\ Cardinality(qres.map) = Cardinality({p[1] : p \in qres.map})
        /\ qres.map = LastWins(expected.pairs)

\* C7 witness: an accepted query string giving one key two different values.
C7_Witness ==
    /\ pc = "queried"
    /\ expected.kind = "query"
    /\ qres.tag = "Done"
    /\ qres.rest = <<>>
    /\ \E n, m \in 1..Len(expected.pairs) :
           /\ n < m
           /\ expected.pairs[n][1] = expected.pairs[m][1]
           /\ expected.pairs[n][2] # expected.pairs[m][2]

\* C8: parse_uri never returns Ok with query = Some(empty mapping).
C8_NoEmptyQuery ==
    (pc = "parsed" /\ result.tag = "Ok" /\ Len(result.uri.query) > 0) =>
        result.uri.query[1] # {}

\* C9: a host followed by ":" and a digit run is an error when the run's value
\* exceeds 65535, whatever follows, and gives that value as the port otherwise.
C9_PortRange ==
    (pc = "parsed" /\ expected.kind = "port") =>
        IF DecimalValue(expected.digits, 0) > U16Max
        THEN result.tag # "Ok"
        ELSE result.tag = "Ok" /\ result.uri.port = <<DecimalValue(expected.digits, 0)>>

\* C9 witness: the digit run 65536, one past the largest port, rejected.
C9_Witness ==
    /\ pc = "parsed"
    /\ expected.kind = "port"
    /\ DecimalValue(expected.digits, 0) = U16Max + 1
    /\ result.tag = "NotFullyParsed"

\* C10: parse_uri on a whole string never returns Err(Incomplete).
C10_NeverIncomplete ==
    pc = "parsed" => result.tag # "Incomplete"

====
